---- MODULE Spec2Model ----
(***************************************************************************)
(* Model of src/index.js of worker-fetch: the fetch() coordinator that     *)
(* gates the URL scheme, short-cuts data: URLs, wires an abort signal,     *)
(* dispatches to the transport (_callService) and translates the           *)
(* transport's nested outcome into a Response or a rejection.              *)
(***************************************************************************)
EXTENDS Integers, Sequences, FiniteSets, TLC

\* ------------------------------------------------------------------ bounds
NumCalls == 2          \* fetch invocations that may be in flight together
MaxCallbacks == 2      \* times the transport may invoke one completion callback
MaxAborts == 2         \* times the abort event may be dispatched on the signal
MaxHeaders == 3        \* length of the header lists given to collectRequestHeaders

Calls == 1..NumCalls

\* ------------------------------------------------------------ JS values
Null == [kind |-> "null"]
Pending == [state |-> "pending", value |-> Null]

\* A plain object literal {} inherits these properties from Object.prototype;
\* reading them through result[k] yields a truthy value that is no array.
ObjectPrototypeProps ==
  {"constructor", "__proto__", "toString", "valueOf", "hasOwnProperty"}

\* The rejection values the coordinator constructs.
AbortError == [kind |-> "AbortError", message |-> "The operation was aborted."]

FetchError(message, type, systemError) ==
  [kind |-> "FetchError", message |-> message, type |-> type,
   systemError |-> systemError]

\* ------------------------------------------------------------ URLs
\* A URL is its token sequence; the first token is what URL.protocol returns.
HttpUrl == <<"http:", "//example.com/a">>
HttpsUrl == <<"https:", "//example.com/b">>
FtpUrl == <<"ftp:", "//example.com/c">>
FileUrl == <<"file:", "///etc/hosts">>
DataUrlHtml == <<"data:", "text/html", ",", "hello">>
DataUrlBare == <<"data:", "", ",", "hi">>

URLs == {HttpUrl, HttpsUrl, FtpUrl, FileUrl, DataUrlHtml, DataUrlBare}

protocol(url) == url[1]

\* The allow-set with one scheme too many.
supportedSchemasWide == {"data:", "http:", "https:", "ftp:"}

supportedSchemas == {"data:", "http:", "https:"}

\* protocol.replace(/:$/, '')
SchemeName(p) ==
  CASE p = "http:" -> "http"
    [] p = "https:" -> "https"
    [] p = "data:" -> "data"
    [] p = "ftp:" -> "ftp"
    [] p = "file:" -> "file"
    [] OTHER -> p

\* The TypeError of the scheme gate: its message names the url and the scheme.
SchemeError(url) ==
  [kind |-> "TypeError", url |-> url, scheme |-> SchemeName(protocol(url))]

\* data-uri-to-buffer: the payload after the comma and the media type before
\* it, defaulting to text/plain;charset=US-ASCII when the type is empty.
dataUriToBuffer(url) ==
  [bytes |-> url[4],
   typeFull |-> IF url[2] = "" THEN "text/plain;charset=US-ASCII" ELSE url[2]]

\* new Response(body, options): the value object records what it is given.
Response(body, options) ==
  [kind |-> "Response", body |-> body, options |-> options]

\* The shortcut taking the media type as written in the URL.
dataResponseRawType(url) ==
  LET data == dataUriToBuffer(url)
  IN Response(data.bytes, [headers |-> ("Content-Type" :> url[2])])

\* The response of the data: shortcut.
dataResponse(url) ==
  LET data == dataUriToBuffer(url)
  IN Response(data.bytes, [headers |-> ("Content-Type" :> data.typeFull)])

\* ------------------------------------------------------------ headers
HeaderNames == {"a", "b", "constructor"}
HeaderValues == {"1", "2"}
HeaderPairs == HeaderNames \X HeaderValues

RECURSIVE SeqsUpTo(_, _)
SeqsUpTo(S, n) ==
  IF n = 0 THEN {<<>>}
  ELSE LET shorter == SeqsUpTo(S, n - 1)
       IN shorter \cup {Append(s, x) : s \in {t \in shorter : Len(t) = n - 1}, x \in S}

NamesOf(pairs) == {pairs[i][1] : i \in DOMAIN pairs}

RECURSIVE ValuesOf(_, _)
ValuesOf(pairs, name) ==
  IF pairs = <<>> THEN <<>>
  ELSE IF Head(pairs)[1] = name
       THEN <<Head(pairs)[2]>> \o ValuesOf(Tail(pairs), name)
       ELSE ValuesOf(Tail(pairs), name)

\* The loop of collectRequestHeaders over the remaining pairs, result being
\* the object built so far (its own properties only).
RECURSIVE collectLoop(_, _)
collectLoop(rawHeaders, result) ==
  IF rawHeaders = <<>> THEN [threw |-> FALSE, value |-> result]
  ELSE LET k == Head(rawHeaders)[1]
           v == Head(rawHeaders)[2]
       IN IF k \in DOMAIN result
          THEN collectLoop(Tail(rawHeaders), [result EXCEPT ![k] = Append(@, v)])
          ELSE IF k \in ObjectPrototypeProps
               \* result[k] is the inherited property: truthy, so no array is
               \* stored, and result[k].push is not a function
               THEN [threw |-> TRUE, value |-> result]
               ELSE collectLoop(Tail(rawHeaders), (k :> <<v>>) @@ result)

collectRequestHeaders(rawHeaders) == collectLoop(rawHeaders, <<>>)

\* The TypeError raised by result[k].push(v) on an inherited property.
PushError == [kind |-> "TypeError", url |-> <<>>, scheme |-> "result[k].push is not a function"]

\* fromRawHeaders: the Headers container made of the transport's pairs.
fromRawHeaders(pairs) ==
  [n \in NamesOf(pairs) |-> ValuesOf(pairs, n)]

\* ------------------------------------------------------------ requests
Methods == {"GET", "POST"}

\* The header lists a request of the lifecycle model carries.
RequestHeaderLists ==
  {<<>>, << <<"a", "1">>, <<"a", "2">> >>, << <<"constructor", "1">> >>}

\* size / counter / highWaterMark of the request descriptor.
Limits ==
  {[size |-> 0, counter |-> 0, highWaterMark |-> 16384],
   [size |-> 1024, counter |-> 1, highWaterMark |-> 8]}

\* new Request(url, options_): the fields the coordinator reads.  A body is
\* a readable stream; a GET request has none.
Request(u, m, h, s, l) ==
  [url |-> u, method |-> m, body |-> IF m = "POST" THEN "stream" ELSE "none",
   headers |-> h, signal |-> s,
   size |-> l.size, counter |-> l.counter, highWaterMark |-> l.highWaterMark]

Requests ==
  {Request(u, m, h, s, l) :
     u \in URLs, m \in Methods, h \in RequestHeaderLists, s \in BOOLEAN, l \in Limits}

\* The requests of the calls that share one signal.
SharedRequests ==
  {Request(HttpUrl, "POST", h, TRUE, [size |-> 0, counter |-> 0, highWaterMark |-> 16384]) :
     h \in {<<>>, << <<"constructor", "1">> >>}}

\* ------------------------------------------------------------ transport outcomes
\* The objects the transport passes to the completion callback, as maps from
\* property name to value.
SystemErr(detail) == ("Err" :> detail)
SystemOk(inner) == ("Ok" :> inner)
RequestErr(reason) == ("Err" :> reason)
RequestOk(httpResult) == ("Ok" :> httpResult)
TextBody(t) == ("Text" :> t)
BinaryBody(b) == ("Binary" :> b)
HttpResult(status, headers, body) ==
  [status |-> status, headers |-> headers, body |-> body]

ErrorDetails == {"network down"}
Reasons == {"connection refused"}
HttpResults ==
  {HttpResult(200, << <<"content-type", "text/plain">> >>, TextBody("ok")),
   HttpResult(404, << <<"set-cookie", "x">>, <<"set-cookie", "y">> >>,
              BinaryBody(<<0, 104, 255>>)),
   HttpResult(204, <<>>, TextBody(""))}

Outcomes ==
  {SystemErr(d) : d \in ErrorDetails}
    \cup {SystemOk(RequestErr(r)) : r \in Reasons}
    \cup {SystemOk(RequestOk(h)) : h \in HttpResults}

\* The outcomes delivered to the calls that share one signal.
SharedOutcomes ==
  {SystemErr("network down"),
   SystemOk(RequestOk(HttpResult(200, << <<"content-type", "text/plain">> >>, TextBody("ok"))))}

\* maybeResponse.Ok and the like: a missing property reads as undefined.
Has(obj, key) == key \in DOMAIN obj

\* new Uint8Array(list).buffer
Uint8Array(list) == [i \in DOMAIN list |-> list[i] % 256]

\* ------------------------------------------------------------ state
VARIABLES
  pc,             \* per call: "idle", "awaitBody", then where the executor left:
                  \* "threwScheme", "resolvedData", "abortedAtEntry",
                  \* "threwHeaders" or "dispatched"
  entryAborted,   \* per call: signal.aborted when fetch was invoked
  request,        \* per call: the Request built at line 42
  promise,        \* per call: the promise created at line 45
  response,       \* per call: the closure variable `response`
  sent,           \* per call: the envelope handed to _callService
  lastOutcome,    \* per call: the argument of the latest completion callback
  cbCount,        \* per call: completion callbacks run
  transportCalls, \* per call: invocations of _callService
  regCount,       \* per call: addEventListener calls made
  bodyDestroyed,  \* per call: the causes of the request.body.destroy(error) calls
  bodyErrors,     \* per call: 'error' events emitted on response.body
  aborted,        \* signal.aborted
  listeners,      \* calls whose abortAndFinalize is registered on the signal
  foreignListening, \* a listener of unrelated code is registered on the signal
  abortCount,     \* abort events dispatched on the signal
  rawInput,       \* argument of a stand-alone collectRequestHeaders call
  collected       \* its outcome

vars ==
  <<pc, entryAborted, request, promise, response, sent, lastOutcome, cbCount, transportCalls,
    regCount, bodyDestroyed, bodyErrors, aborted, listeners, foreignListening,
    abortCount, rawInput, collected>>

callVars ==
  <<pc, entryAborted, request, promise, response, sent, lastOutcome, cbCount, transportCalls,
    regCount, bodyDestroyed, bodyErrors>>

signalVars == <<aborted, listeners, foreignListening, abortCount>>

headerVars == <<rawInput, collected>>

\* A promise that every resolve / reject call settles anew.
SettleAgain(p, state, value) == [state |-> state, value |-> value]

\* resolve(value) / reject(error) of the promise of line 45: only the first
\* call settles it.
Settle(p, state, value) ==
  IF p.state = "pending" THEN [state |-> state, value |-> value] ELSE p

InitCalls ==
  /\ pc = [c \in Calls |-> "idle"]
  /\ entryAborted = [c \in Calls |-> FALSE]
  /\ request = [c \in Calls |-> Null]
  /\ promise = [c \in Calls |-> Pending]
  /\ response = [c \in Calls |-> Null]
  /\ sent = [c \in Calls |-> Null]
  /\ lastOutcome = [c \in Calls |-> <<>>]
  /\ cbCount = [c \in Calls |-> 0]
  /\ transportCalls = [c \in Calls |-> 0]
  /\ regCount = [c \in Calls |-> 0]
  /\ bodyDestroyed = [c \in Calls |-> <<>>]
  /\ bodyErrors = [c \in Calls |-> 0]
  /\ aborted = FALSE
  /\ listeners = {}
  /\ foreignListening = FALSE
  /\ abortCount = 0

Init ==
  /\ InitCalls
  /\ rawInput = <<>>
  /\ collected = Null

\* ------------------------------------------------------------ fetch
\* fetch(url, options_) up to the await of request.arrayBuffer().
fetch(c, r) ==
  /\ pc[c] = "idle"
  /\ pc' = [pc EXCEPT ![c] = "awaitBody"]
  /\ request' = [request EXCEPT ![c] = r]
  /\ entryAborted' = [entryAborted EXCEPT ![c] = r.signal /\ aborted]
  /\ UNCHANGED <<promise, response, sent, lastOutcome, cbCount, transportCalls,
                 regCount, bodyDestroyed, bodyErrors>>
  /\ UNCHANGED signalVars
  /\ UNCHANGED headerVars

\* abort() destroying the outbound body whatever it is.
abortDestroysAnyBody(c) == Append(bodyDestroyed[c], AbortError)

\* What abort() does to the outbound body and to the response body.
abortDestroys(c) ==
  IF request[c].body = "stream"
  THEN Append(bodyDestroyed[c], AbortError)
  ELSE bodyDestroyed[c]

abortEmits(c) ==
  IF response[c] = Null THEN bodyErrors[c] ELSE bodyErrors[c] + 1

\* The executor without the check of signal.aborted.
abortedAtEntryUnchecked(c) == FALSE

\* if (signal && signal.aborted)
abortedAtEntry(c) == request[c].signal /\ aborted

\* The envelope req handed to _callService.
envelope(r, headers) ==
  [method |-> r.method, url |-> r.url, headers |-> headers]

\* The executor of the promise, run when the body has been materialized:
\* scheme gate, data: shortcut, aborted-at-entry check, listener
\* registration, envelope construction and dispatch.
executor(c) ==
  LET r == request[c]
      p == protocol(r.url)
      headers == collectRequestHeaders(r.headers)
  IN
  /\ pc[c] = "awaitBody"
  /\ UNCHANGED <<entryAborted, request, response, lastOutcome, cbCount, bodyErrors>>
  /\ UNCHANGED <<aborted, foreignListening, abortCount>>
  /\ UNCHANGED headerVars
  /\ IF p \notin supportedSchemas
     THEN /\ promise' = [promise EXCEPT ![c] = Settle(@, "rejected", SchemeError(r.url))]
          /\ pc' = [pc EXCEPT ![c] = "threwScheme"]
          /\ UNCHANGED <<sent, transportCalls, regCount, bodyDestroyed, listeners>>
     ELSE IF p = "data:"
     THEN /\ promise' = [promise EXCEPT ![c] = Settle(@, "fulfilled", dataResponse(r.url))]
          /\ pc' = [pc EXCEPT ![c] = "resolvedData"]
          /\ UNCHANGED <<sent, transportCalls, regCount, bodyDestroyed, listeners>>
     ELSE IF abortedAtEntry(c)
     THEN /\ promise' = [promise EXCEPT ![c] = Settle(@, "rejected", AbortError)]
          /\ bodyDestroyed' = [bodyDestroyed EXCEPT ![c] = abortDestroys(c)]
          /\ pc' = [pc EXCEPT ![c] = "abortedAtEntry"]
          /\ UNCHANGED <<sent, transportCalls, regCount, listeners>>
     ELSE /\ listeners' = IF r.signal THEN listeners \cup {c} ELSE listeners
          /\ regCount' = [regCount EXCEPT ![c] = IF r.signal THEN @ + 1 ELSE @]
          /\ UNCHANGED bodyDestroyed
          /\ IF headers.threw
             THEN /\ promise' = [promise EXCEPT ![c] = Settle(@, "rejected", PushError)]
                  /\ pc' = [pc EXCEPT ![c] = "threwHeaders"]
                  /\ UNCHANGED <<sent, transportCalls>>
             ELSE /\ sent' = [sent EXCEPT ![c] = envelope(r, headers.value)]
                  /\ transportCalls' = [transportCalls EXCEPT ![c] = @ + 1]
                  /\ pc' = [pc EXCEPT ![c] = "dispatched"]
                  /\ UNCHANGED promise

\* A finalize() that removes nothing.
finalizeKeeps(c) == listeners

\* A finalize() that clears the abort listeners of the signal.
finalizeClears(c) == {}

\* finalize(): signal.removeEventListener('abort', abortAndFinalize)
finalize(c) ==
  IF request[c].signal THEN listeners \ {c} ELSE listeners

\* The options record with size and counter taken from each other.
responseOptionsSwapped(c, response_) ==
  [url |-> request[c].url,
   status |-> response_.status,
   statusText |-> "No status",
   headers |-> fromRawHeaders(response_.headers),
   size |-> request[c].counter,
   counter |-> request[c].size,
   highWaterMark |-> request[c].highWaterMark]

\* The options record of the response built from a success outcome.
responseOptions(c, response_) ==
  [url |-> request[c].url,
   status |-> response_.status,
   statusText |-> "No status",
   headers |-> fromRawHeaders(response_.headers),
   size |-> request[c].size,
   counter |-> request[c].counter,
   highWaterMark |-> request[c].highWaterMark]

\* The body handed to the Response constructor.
decodeBody(body) ==
  IF Has(body, "Text") THEN body["Text"] ELSE Uint8Array(body["Binary"])

\* The rejection of the SystemErr branch.
ioError(maybeResponse) ==
  FetchError([text |-> "io error"], "system", maybeResponse["Err"])

\* The RequestErr rejection tagged as a request-level error.
requestErrorTagged(url, maybeResponse) ==
  FetchError([text |-> "request to ${url} failed, reason: ${reason}",
              url |-> url, reason |-> maybeResponse["Ok"]["Err"]],
             "request", maybeResponse["Ok"]["Err"])

\* The rejection of the RequestErr branch.
requestError(url, maybeResponse) ==
  FetchError([text |-> "request to ${url} failed, reason: ${reason}",
              url |-> url, reason |-> maybeResponse["Ok"]["Err"]],
             "system", maybeResponse["Ok"]["Err"])

\* The completion callback given to _callService, run with maybeResponse.
callback(c, maybeResponse) ==
  /\ pc[c] = "dispatched"
  /\ cbCount[c] < MaxCallbacks
  /\ cbCount' = [cbCount EXCEPT ![c] = @ + 1]
  /\ lastOutcome' = [lastOutcome EXCEPT ![c] = maybeResponse]
  /\ UNCHANGED <<pc, entryAborted, request, sent, transportCalls, regCount,
                 bodyDestroyed, bodyErrors>>
  /\ UNCHANGED <<aborted, foreignListening, abortCount>>
  /\ UNCHANGED headerVars
  /\ IF ~Has(maybeResponse, "Ok")
     THEN /\ promise' = [promise EXCEPT ![c] = Settle(@, "rejected", ioError(maybeResponse))]
          /\ listeners' = finalize(c)
          /\ UNCHANGED response
     ELSE IF ~Has(maybeResponse["Ok"], "Ok")
     THEN /\ promise' = [promise EXCEPT ![c] =
                Settle(@, "rejected", requestError(request[c].url, maybeResponse))]
          /\ listeners' = finalize(c)
          /\ UNCHANGED response
     ELSE LET response_ == maybeResponse["Ok"]["Ok"]
              built == Response(decodeBody(response_.body), responseOptions(c, response_))
          IN /\ listeners' = finalize(c)
             /\ response' = [response EXCEPT ![c] = built]
             /\ promise' = [promise EXCEPT ![c] = Settle(@, "fulfilled", built)]

\* The signal dispatches its abort event: every registered abortAndFinalize
\* runs abort() and then finalize(); the listeners of unrelated code run too.
abortEvent ==
  /\ abortCount < MaxAborts
  /\ abortCount' = abortCount + 1
  /\ aborted' = TRUE
  /\ promise' = [c \in Calls |->
        IF c \in listeners THEN Settle(promise[c], "rejected", AbortError) ELSE promise[c]]
  /\ bodyDestroyed' = [c \in Calls |->
        IF c \in listeners THEN abortDestroys(c) ELSE bodyDestroyed[c]]
  /\ bodyErrors' = [c \in Calls |->
        IF c \in listeners THEN abortEmits(c) ELSE bodyErrors[c]]
  /\ listeners' = {}
  /\ UNCHANGED <<pc, entryAborted, request, response, sent, lastOutcome, cbCount,
                 transportCalls, regCount>>
  /\ UNCHANGED foreignListening
  /\ UNCHANGED headerVars

\* Unrelated code adds or removes its own listener on the shared signal.
foreignAdd ==
  /\ ~foreignListening
  /\ foreignListening' = TRUE
  /\ UNCHANGED <<aborted, listeners, abortCount>>
  /\ UNCHANGED callVars
  /\ UNCHANGED headerVars

foreignRemove ==
  /\ foreignListening
  /\ foreignListening' = FALSE
  /\ UNCHANGED <<aborted, listeners, abortCount>>
  /\ UNCHANGED callVars
  /\ UNCHANGED headerVars

\* One fetch call with every kind of request.
Next ==
  \/ \E r \in Requests : fetch(1, r)
  \/ executor(1)
  \/ \E m \in Outcomes : callback(1, m)
  \/ abortEvent
  \/ foreignAdd
  \/ foreignRemove

Spec == Init /\ [][Next]_vars

\* Several fetch calls sharing the one signal.
NextShared ==
  \/ \E c \in Calls : \E r \in SharedRequests : fetch(c, r)
  \/ \E c \in Calls : executor(c)
  \/ \E c \in Calls : \E m \in SharedOutcomes : callback(c, m)
  \/ abortEvent
  \/ foreignAdd
  \/ foreignRemove

SpecShared == Init /\ [][NextShared]_vars

\* The call under the assumption that the body materializes and that the
\* transport runs the completion callback once for a dispatch.
firstCallback == \E m \in Outcomes : cbCount[1] = 0 /\ callback(1, m)

SpecLive ==
  /\ Init
  /\ [][Next]_vars
  /\ WF_vars(executor(1))
  /\ WF_vars(firstCallback)

\* collectRequestHeaders on its own, applied to every short list of pairs.
InitHeaders ==
  /\ InitCalls
  /\ rawInput \in SeqsUpTo(HeaderPairs, MaxHeaders)
  /\ collected = Null

collect ==
  /\ collected = Null
  /\ collected' = collectRequestHeaders(rawInput)
  /\ UNCHANGED rawInput
  /\ UNCHANGED callVars
  /\ UNCHANGED signalVars

NextHeaders == collect

SpecHeaders == InitHeaders /\ [][NextHeaders]_vars

\* ------------------------------------------------------------ properties
Settled(c) == promise[c].state # "pending"
Started(c) == pc[c] \notin {"idle", "awaitBody"}
IsHttp(c) == protocol(request[c].url) \in {"http:", "https:"}
RejectedWith(p, error) == p = [state |-> "rejected", value |-> error]
IsSuccess(m) == Has(m, "Ok") /\ Has(m["Ok"], "Ok")

C2_NoListenerOnceSettled ==
  \A c \in Calls : Settled(c) => c \notin listeners

\* C3: when the abort event is dispatched on the signal of a call whose
\* response has already been constructed, an error event is emitted on the
\* body of that response.
C3_AbortAfterResponseEmitsError ==
  [][\A c \in Calls :
       (abortCount' # abortCount /\ request[c] # Null /\ request[c].signal
          /\ response[c] # Null)
         => bodyErrors'[c] > bodyErrors[c]]_vars

\* C4: a fetch of a data: URL whose signal was aborted when fetch was invoked
\* rejects with the abort error and never resolves through the shortcut.
C4_AbortPrecedesDataShortcut ==
  \A c \in Calls :
    (Started(c) /\ protocol(request[c].url) = "data:" /\ request[c].signal
       /\ entryAborted[c])
      => RejectedWith(promise[c], AbortError)

\* C5: an http(s) fetch whose signal is aborted when the executor examines it
\* takes the abort exit, and from then on the promise is rejected with the
\* abort error, the transport has not been invoked, no listener has been
\* registered and no error event has been emitted on a response body.
C5_AbortedAtEntry ==
  /\ [][\A c \in Calls :
          (pc[c] = "awaitBody" /\ pc'[c] # "awaitBody" /\ IsHttp(c)
             /\ request[c].signal /\ aborted)
            => pc'[c] = "abortedAtEntry"]_vars
  /\ [](\A c \in Calls :
          pc[c] = "abortedAtEntry" =>
            /\ RejectedWith(promise[c], AbortError)
            /\ transportCalls[c] = 0
            /\ sent[c] = Null
            /\ regCount[c] = 0
            /\ c \notin listeners
            /\ response[c] = Null
            /\ bodyErrors[c] = 0)

\* An http(s) call was found aborted and a later abort event was dispatched.
C5_Witness ==
  \E c \in Calls :
    /\ pc[c] = "abortedAtEntry"
    /\ IsHttp(c)
    /\ request[c].body = "stream"
    /\ abortCount = MaxAborts

\* C6: a URL whose scheme is outside {data, http, https} rejects with the
\* scheme error naming it, without any transport call or listener
\* registration; a scheme inside the set is not rejected by the gate.
C6_SchemeGate ==
  \A c \in Calls :
    Started(c) =>
      IF protocol(request[c].url) \in {"data:", "http:", "https:"}
      THEN /\ pc[c] # "threwScheme"
           /\ ~RejectedWith(promise[c], SchemeError(request[c].url))
      ELSE /\ promise[c].state = "rejected"
           /\ promise[c].value.kind = "TypeError"
           /\ promise[c].value.url = request[c].url
           /\ promise[c].value.scheme \o ":" = protocol(request[c].url)
           /\ transportCalls[c] = 0
           /\ regCount[c] = 0
           /\ c \notin listeners

\* A call with a signal and an unsupported scheme was rejected by the gate
\* and the signal fired afterwards.
C6_Witness ==
  \E c \in Calls :
    /\ pc[c] = "threwScheme"
    /\ request[c].url = FtpUrl
    /\ request[c].signal
    /\ aborted

\* C7: a completion callback that finds the promise pending settles it by a
\* three-way split: SystemErr(detail) rejects with a 'system' fetch error
\* carrying detail, SystemOk(RequestErr(reason)) rejects with a 'system'
\* fetch error whose message names the URL and the reason, and
\* SystemOk(RequestOk(result)) is the only outcome that fulfils.
C7_OutcomeTranslation ==
  [][\A c \in Calls :
       (~Settled(c) /\ cbCount'[c] # cbCount[c]) =>
         LET m == lastOutcome'[c]
             q == promise'[c]
         IN /\ q.state \in {"fulfilled", "rejected"}
            /\ \A d \in ErrorDetails :
                 m = SystemErr(d) =>
                   /\ q.state = "rejected"
                   /\ q.value.kind = "FetchError"
                   /\ q.value.type = "system"
                   /\ q.value.systemError = d
            /\ \A r \in Reasons :
                 m = SystemOk(RequestErr(r)) =>
                   /\ q.state = "rejected"
                   /\ q.value.kind = "FetchError"
                   /\ q.value.type = "system"
                   /\ q.value.message.url = request[c].url
                   /\ q.value.message.reason = r
            /\ (\E h \in HttpResults : m = SystemOk(RequestOk(h)))
                 <=> (q.state = "fulfilled" /\ q.value.kind = "Response")]_vars

\* A request error was the first outcome and rejected the promise.
C7_Witness ==
  \E c \in Calls :
    /\ cbCount[c] = 1
    /\ promise[c].state = "rejected"
    /\ promise[c].value.kind = "FetchError"
    /\ lastOutcome[c] \in {SystemOk(RequestErr(r)) : r \in Reasons}

\* C8: the response built from a success outcome has the request's url, the
\* transport's status, the fixed status text, the translated headers, the
\* request's size / counter / highWaterMark, and the text or the byte
\* sequence of the transport's body; it is the value a pending promise is
\* fulfilled with.
C8_ResponseFields ==
  [][\A c \in Calls : \A h \in HttpResults :
       (cbCount'[c] # cbCount[c] /\ lastOutcome'[c] = SystemOk(RequestOk(h))) =>
         LET x == response'[c]
         IN /\ x.options.url = request[c].url
            /\ x.options.status = h.status
            /\ x.options.statusText = "No status"
            /\ x.options.headers = [n \in NamesOf(h.headers) |-> ValuesOf(h.headers, n)]
            /\ x.options.size = request[c].size
            /\ x.options.counter = request[c].counter
            /\ x.options.highWaterMark = request[c].highWaterMark
            /\ ("Text" \in DOMAIN h.body => x.body = h.body["Text"])
            /\ ("Binary" \in DOMAIN h.body => x.body = h.body["Binary"])
            /\ (~Settled(c) => promise'[c] = [state |-> "fulfilled", value |-> x])]_vars

\* A promise was fulfilled with a response decoded from a binary body for a
\* request with non-default limits.
C8_Witness ==
  \E c \in Calls :
    /\ promise[c].state = "fulfilled"
    /\ pc[c] = "dispatched"
    /\ promise[c].value.options.status = 404
    /\ promise[c].value.body = <<0, 104, 255>>
    /\ request[c].size = 1024

\* C9: collectRequestHeaders does not fail, and returns a mapping whose keys
\* are exactly the names of the input, each mapped to the values paired with
\* it in arrival order.
C9_CollectRequestHeaders ==
  collected # Null =>
    /\ ~collected.threw
    /\ DOMAIN collected.value = NamesOf(rawInput)
    /\ \A n \in NamesOf(rawInput) : collected.value[n] = ValuesOf(rawInput, n)

\* C10: a fetch of a data: URL whose signal is absent or was not aborted at
\* the call resolves with a response made of the decoded payload and a
\* Content-Type header of the decoded media type, with no transport call and
\* no listener registration.
C10_DataShortcut ==
  \A c \in Calls :
    (Started(c) /\ protocol(request[c].url) = "data:"
       /\ (~request[c].signal \/ ~entryAborted[c])) =>
      /\ promise[c].state = "fulfilled"
      /\ promise[c].value.kind = "Response"
      /\ request[c].url = DataUrlHtml =>
            /\ promise[c].value.body = "hello"
            /\ promise[c].value.options.headers = ("Content-Type" :> "text/html")
      /\ request[c].url = DataUrlBare =>
            /\ promise[c].value.body = "hi"
            /\ promise[c].value.options.headers
                 = ("Content-Type" :> "text/plain;charset=US-ASCII")
      /\ transportCalls[c] = 0
      /\ regCount[c] = 0
      /\ c \notin listeners

\* A data: call with a live signal resolved through the shortcut, and the
\* signal fired afterwards.
C10_Witness ==
  \E c \in Calls :
    /\ pc[c] = "resolvedData"
    /\ request[c].url = DataUrlBare
    /\ request[c].signal
    /\ ~entryAborted[c]
    /\ aborted

\* C11: when building the envelope throws after the abort listener has been
\* registered, the promise is rejected and the listener is removed.
C11_ListenerRemovedOnThrow ==
  \A c \in Calls :
    (pc[c] = "threwHeaders" /\ regCount[c] > 0) =>
      /\ promise[c].state = "rejected"
      /\ c \notin listeners

ExecutorStep(c) == pc[c] = "awaitBody" /\ pc'[c] # "awaitBody"
AbortStep == abortCount' # abortCount
CallbackStep(c) == cbCount'[c] # cbCount[c]

\* C12: the outbound body is destroyed at most once, only by the abort path
\* (signal found aborted by the executor, or the abort listener run while
\* registered) and only when it is a stream, always with the abort error as
\* cause; a second abort event, or one after a transport outcome has been
\* delivered, rejects nothing and destroys nothing.
C12_DestroyOnceOnAbort ==
  /\ [](\A c \in Calls :
          /\ Len(bodyDestroyed[c]) <= 1
          /\ \A i \in DOMAIN bodyDestroyed[c] :
               bodyDestroyed[c][i] = AbortError /\ request[c].body = "stream")
  /\ [][\A c \in Calls :
          /\ bodyDestroyed'[c] # bodyDestroyed[c] =>
               \/ ExecutorStep(c) /\ request[c].signal /\ aborted
               \/ AbortStep /\ c \in listeners
          /\ (AbortStep /\ (abortCount >= 1 \/ cbCount[c] >= 1)) =>
               /\ promise'[c] = promise[c]
               /\ bodyDestroyed'[c] = bodyDestroyed[c]
               /\ bodyErrors'[c] = bodyErrors[c]]_vars

\* The body stream of a dispatched call was destroyed by the abort listener
\* and a second abort event has been dispatched since.
C12_Witness ==
  \E c \in Calls :
    /\ pc[c] = "dispatched"
    /\ bodyDestroyed[c] = <<AbortError>>
    /\ abortCount = MaxAborts
    /\ cbCount[c] >= 1

\* C13: with several calls in flight on one shared signal, a call adds and
\* removes only its own listener: its executor and its completion callback
\* leave the listeners of the other calls and of unrelated code registered,
\* and an abort event rejects every call still in flight with the abort
\* error, removes their listeners and leaves the foreign listener alone.
C13_OwnListenerOnly ==
  [][\A c \in Calls :
       /\ ExecutorStep(c) =>
            /\ listeners' \ {c} = listeners \ {c}
            /\ foreignListening' = foreignListening
            /\ regCount'[c] # regCount[c] => (c \notin listeners /\ c \in listeners')
       /\ CallbackStep(c) =>
            /\ listeners' = listeners \ {c}
            /\ foreignListening' = foreignListening
       /\ AbortStep =>
            /\ foreignListening' = foreignListening
            /\ (pc[c] = "dispatched" /\ ~Settled(c)) =>
                 /\ RejectedWith(promise'[c], AbortError)
                 /\ c \notin listeners']_vars

\* One call has settled by a transport outcome while another call and a
\* foreign listener are still registered on the signal.
C13_Witness ==
  \E c, d \in Calls :
    /\ c # d
    /\ cbCount[c] >= 1
    /\ promise[c].state = "fulfilled"
    /\ pc[d] = "dispatched"
    /\ d \in listeners
    /\ ~Settled(d)
    /\ foreignListening

\* C14: a call registers its abort listener at most once, in the executor
\* and exactly when the scheme is http or https and the signal is present
\* and not aborted there; a call that reached the transport with a signal
\* had registered; and the listener is removed by every completion callback
\* (success or failure) and by the abort listener itself.
C14_OneRegistration ==
  /\ [](\A c \in Calls :
          /\ regCount[c] <= 1
          /\ (transportCalls[c] > 0 /\ request[c].signal) => regCount[c] = 1)
  /\ [][\A c \in Calls :
          /\ ExecutorStep(c) =>
               /\ regCount'[c] = regCount[c] + 1
                    <=> (IsHttp(c) /\ request[c].signal /\ ~aborted)
               /\ regCount'[c] # regCount[c] => c \in listeners'
          /\ ~ExecutorStep(c) => regCount'[c] = regCount[c]
          /\ CallbackStep(c) => c \notin listeners'
          /\ (AbortStep /\ c \in listeners) => c \notin listeners']_vars

\* A call registered its listener, was dispatched, and a failure outcome
\* removed the listener again.
C14_Witness ==
  \E c \in Calls :
    /\ regCount[c] = 1
    /\ transportCalls[c] = 1
    /\ cbCount[c] = 1
    /\ promise[c].state = "rejected"
    /\ promise[c].value.kind = "FetchError"
    /\ c \notin listeners
    /\ abortCount = 0

\* C15: the transport is invoked at most once per call, and exactly once by
\* the executor of an http or https call whose signal is absent or not
\* aborted there; no callback and no abort event invokes it again.
C15_OneTransportCall ==
  /\ [](\A c \in Calls : transportCalls[c] <= 1)
  /\ [][\A c \in Calls :
          /\ (ExecutorStep(c) /\ IsHttp(c) /\ ~(request[c].signal /\ aborted)) =>
               transportCalls'[c] = 1
          /\ ~ExecutorStep(c) => transportCalls'[c] = transportCalls[c]]_vars

\* C16: the scheme gate runs with no suspension point after the invocation
\* of fetch: a call with an unsupported scheme is never found suspended on
\* the materialization of its body, it is rejected as soon as it is invoked.
C16_SchemeGateSynchronous ==
  \A c \in Calls :
    (pc[c] # "idle" /\ protocol(request[c].url) \notin {"data:", "http:", "https:"}) =>
      /\ pc[c] = "threwScheme"
      /\ promise[c].state = "rejected"

\* C17: for an http or https call with a signal, an abort that comes after
\* fetch was invoked and before any transport outcome was delivered rejects
\* the promise with the abort error once the executor has run.
C17_NoAbortLost ==
  \A c \in Calls :
    (Started(c) /\ IsHttp(c) /\ request[c].signal /\ ~entryAborted[c]
       /\ aborted /\ cbCount[c] = 0)
      => RejectedWith(promise[c], AbortError)

\* C18: once the body has materialized and the transport has run the
\* completion callback of a dispatch, the call has settled and has no
\* listener registered on the signal; and a dispatched call stays pending
\* as long as neither a callback nor an abort event occurs.
C18_SettlesAndReleases ==
  /\ [](\A c \in Calls :
          (Started(c) /\ (pc[c] = "dispatched" => cbCount[c] >= 1)) =>
            (Settled(c) /\ c \notin listeners))
  /\ [][\A c \in Calls :
          (pc[c] = "dispatched" /\ ~Settled(c) /\ ~CallbackStep(c) /\ ~AbortStep) =>
            promise'[c] = promise[c]]_vars

====
